---- MODULE Spec2Model ----
(***************************************************************************)
(* A model of genometools.basic.GeneSetDB (src/genometools/basic/          *)
(* genesetdb.py): the ordered gene set collection, its three lookups, its  *)
(* tab-separated serialisation and the MSigDB XML ingestion.               *)
(*                                                                         *)
(* Texts (Python str/unicode) are sequences of one-character strings, so   *)
(* that joining, splitting and the csv layer are computed on characters.   *)
(* An OrderedDict is a sequence of <<key, value>> pairs with pairwise      *)
(* distinct keys, in insertion order.                                      *)
(***************************************************************************)
EXTENDS Integers, Sequences, FiniteSets, TLC

(***************************************************************************)
(* Bounds of the model.                                                    *)
(***************************************************************************)
\* longest list handed to GeneSetDB(...)
MaxLen == 3
\* most items of the XML document handed to read_msigdb_xml
MaxItems == 3

(***************************************************************************)
(* Characters and texts.                                                   *)
(***************************************************************************)
TAB == "\t"
LF == "\n"
COMMA == ","
QUOTE == "\""

\* Python's None
None == [none |-> TRUE]
\* an optional argument that is given
Some(v) == [none |-> FALSE, val |-> v]

Range(s) == {s[k] : k \in 1..Len(s)}

\* sep.join(parts)
RECURSIVE Join(_, _)
Join(parts, sep) ==
    IF Len(parts) = 0 THEN <<>>
    ELSE IF Len(parts) = 1 THEN parts[1]
    ELSE parts[1] \o <<sep>> \o Join(Tail(parts), sep)

\* text.split(sep): always at least one piece, ''.split(',') == ['']
RECURSIVE Split(_, _)
Split(text, sep) ==
    IF sep \notin Range(text) THEN <<text>>
    ELSE LET k == CHOOSE j \in 1..Len(text) :
                      /\ text[j] = sep
                      /\ \A h \in 1..(j - 1) : text[h] # sep
         IN <<SubSeq(text, 1, k - 1)>> \o Split(SubSeq(text, k + 1, Len(text)), sep)

(***************************************************************************)
(* GeneSet records.  The class itself lives in genometools/basic/          *)
(* geneset.py; its constructor's arguments are those of the call in        *)
(* read_msigdb_xml: GeneSet(id_, name, genes, source, collection,          *)
(* description).                                                           *)
(***************************************************************************)
GeneSet(id_, name, genes, source, collection, description) ==
    [id |-> id_, name |-> name, genes |-> genes, source |-> source,
     collection |-> collection, description |-> description]

\* The records a caller builds lists from: two share the identifier "x",
\* one has an empty description, one has a tab in its name.
GS1 == GeneSet(<<"x">>, <<"a">>, << <<"p">> >>, <<"s">>, <<"c">>, <<"d">>)
GS2 == GeneSet(<<"y">>, <<"b">>, << <<"q">>, <<"p">> >>, <<"s">>, <<"c">>, <<>>)
GS3 == GeneSet(<<"x">>, <<"b">>, << <<"q">> >>, <<"s">>, <<"c">>, <<"d">>)
GS4 == GeneSet(<<"z">>, <<"a", TAB, "b">>, << <<"p">> >>, <<"s">>, <<"c">>, <<"d">>)

GeneSetPool == {GS1, GS2, GS3, GS4}

\* identifiers a caller looks up: those of the pool and one no record has
LookupIds == {<<"x">>, <<"y">>, <<"z">>, <<"w">>}

RECURSIVE SeqsUpTo(_, _)
SeqsUpTo(S, k) ==
    IF k = 0 THEN {<<>>}
    ELSE LET shorter == SeqsUpTo(S, k - 1)
         IN shorter \cup {Append(s, x) : s \in {t \in shorter : Len(t) = k - 1}, x \in S}

InputLists == SeqsUpTo(GeneSetPool, MaxLen)

(***************************************************************************)
(* collections.OrderedDict                                                 *)
(***************************************************************************)
Keys(d) == [k \in 1..Len(d) |-> d[k][1]]
Values(d) == [k \in 1..Len(d) |-> d[k][2]]
HasKey(d, key) == \E k \in 1..Len(d) : d[k][1] = key
DictGet(d, key) == d[CHOOSE k \in 1..Len(d) : d[k][1] = key][2]

\* d[key] = value: a present key keeps its position and takes the new value
DictSet(d, key, value) ==
    IF HasKey(d, key)
    THEN [k \in 1..Len(d) |-> IF d[k][1] = key THEN <<key, value>> ELSE d[k]]
    ELSE Append(d, <<key, value>>)

\* OrderedDict(pairs): the pairs are inserted in order
RECURSIVE OrderedDict(_)
OrderedDict(pairs) ==
    IF Len(pairs) = 0 THEN <<>>
    ELSE LET last == pairs[Len(pairs)]
         IN DictSet(OrderedDict(SubSeq(pairs, 1, Len(pairs) - 1)), last[1], last[2])

(***************************************************************************)
(* State.                                                                  *)
(***************************************************************************)
VARIABLES
    pc,                 \* "start", "built" (a GeneSetDB exists), "parsing", "parsed"
    lst,                \* the caller's list object passed to GeneSetDB(...)
    given,              \* what that list held when GeneSetDB(...) was called
    _gene_sets,         \* self._gene_sets
    _gene_set_ids,      \* self._gene_set_ids
    _gene_set_indices,  \* self._gene_set_indices
    res,                \* the outcome of the last call on the collection
    file,               \* the file at path: None, or its characters
    other,              \* the collection read_tsv returned, or None
    xml                 \* the locals of a running read_msigdb_xml

vars == <<pc, lst, given, _gene_sets, _gene_set_ids, _gene_set_indices, res, file, other, xml>>

dbvars == <<_gene_sets, _gene_set_ids, _gene_set_indices>>

\* a key of db[key]: an int or an identifier
IntKey(i) == [isint |-> TRUE, i |-> i, id |-> <<>>]
IdKey(id_) == [isint |-> FALSE, i |-> 0, id |-> id_]

NoRes == [op |-> "none", key |-> IntKey(0), kind |-> "none", rec |-> None, pos |-> 0,
          seq |-> <<>>, flag |-> FALSE]

(***************************************************************************)
(* GeneSetDB.__init__                                                      *)
(***************************************************************************)
\* mutant: the last record of the list is left out
init_gene_sets_short(gene_sets) ==
    OrderedDict([k \in 1..(Len(gene_sets) - 1) |-> <<gene_sets[k].id, gene_sets[k]>>])

\* mutant: the first record with an identifier is kept, not the last
init_gene_sets_first_wins(gene_sets) ==
    LET rev == [k \in 1..Len(gene_sets) |-> gene_sets[Len(gene_sets) + 1 - k]]
        d == OrderedDict([k \in 1..Len(rev) |-> <<rev[k].id, rev[k]>>])
        ids == Keys(OrderedDict([k \in 1..Len(gene_sets) |-> <<gene_sets[k].id, 0>>]))
    IN [k \in 1..Len(ids) |-> <<ids[k], DictGet(d, ids[k])>>]

\* self._gene_sets = OrderedDict([gs.id, gs] for gs in gene_sets)
init_gene_sets(gene_sets) ==
    OrderedDict([k \in 1..Len(gene_sets) |-> <<gene_sets[k].id, gene_sets[k]>>])

\* self._gene_set_ids = tuple(self._gene_sets.keys())
init_gene_set_ids(gs) == Keys(gs)

\* mutant: positions counted from one, enumerate(..., 1)
init_gene_set_indices_from_one(gs) ==
    OrderedDict([k \in 1..Len(gs) |-> <<Values(gs)[k].id, k>>])

\* self._gene_set_indices = OrderedDict([gs.id, i]
\*         for i, gs in enumerate(self._gene_sets.itervalues()))
init_gene_set_indices(gs) ==
    OrderedDict([k \in 1..Len(gs) |-> <<Values(gs)[k].id, k - 1>>])

\* the object GeneSetDB(gene_sets) as a record of its three fields
GeneSetDB(gene_sets) ==
    LET gs == init_gene_sets(gene_sets)
    IN [gene_sets |-> gs,
        gene_set_ids |-> init_gene_set_ids(gs),
        gene_set_indices |-> init_gene_set_indices(gs)]

\* the properties gene_sets and n of a collection object
db_gene_sets(db) == Values(db.gene_sets)
db_n(db) == Len(db.gene_sets)

\* the collection under construction/use as an object
self == [gene_sets |-> _gene_sets,
         gene_set_ids |-> _gene_set_ids,
         gene_set_indices |-> _gene_set_indices]

\* self.gene_sets and self.n
gene_sets == Values(_gene_sets)
n == Len(_gene_sets)

Init ==
    /\ pc = "start"
    /\ lst = <<>>
    /\ given = <<>>
    /\ _gene_sets = <<>>
    /\ _gene_set_ids = <<>>
    /\ _gene_set_indices = <<>>
    /\ res = NoRes
    /\ file = None
    /\ other = None
    /\ xml = None

\* db = GeneSetDB(lst) for a list the caller keeps
Construct(gsl) ==
    /\ pc = "start"
    /\ LET db == GeneSetDB(gsl)
       IN /\ _gene_sets' = db.gene_sets
          /\ _gene_set_ids' = db.gene_set_ids
          /\ _gene_set_indices' = db.gene_set_indices
    /\ lst' = gsl
    /\ given' = gsl
    /\ pc' = "built"
    /\ UNCHANGED <<res, file, other, xml>>

(***************************************************************************)
(* The lookups.  An outcome is [kind, rec, pos]: kind is "ok" or the name  *)
(* of the exception raised; rec is the GeneSet returned (get_by_id,        *)
(* get_by_index), pos the position returned (index).                       *)
(***************************************************************************)
Returned(rec) == [kind |-> "ok", rec |-> rec, pos |-> 0]
ReturnedPos(pos) == [kind |-> "ok", rec |-> None, pos |-> pos]
Raised(kind) == [kind |-> kind, rec |-> None, pos |-> 0]

\* d[key] of a dict: the value, or KeyError
Subscript(d, key) ==
    IF HasKey(d, key) THEN Returned(DictGet(d, key)) ELSE Raised("KeyError")

\* t[i] of a tuple: a negative i counts from the end, and an i outside
\* -len(t)..len(t)-1 raises IndexError
TupleItem(t, i) ==
    IF 0 <= i /\ i < Len(t) THEN Returned(t[i + 1])
    ELSE IF i < 0 /\ -Len(t) <= i THEN Returned(t[Len(t) + i + 1])
    ELSE Raised("IndexError")

\* try: return self._gene_sets[id_]
\* except KeyError: raise ValueError(...)
get_by_id(db, id_) ==
    LET r == Subscript(db.gene_sets, id_)
    IN IF r.kind = "KeyError" THEN Raised("ValueError") ELSE r

\* mutant: the bound test is i > self.n
get_by_index_gt(db, i) ==
    IF i > db_n(db) THEN Raised("ValueError")
    ELSE LET k == TupleItem(db.gene_set_ids, i)
         IN IF k.kind # "ok" THEN k ELSE Subscript(db.gene_sets, k.rec)

\* if i >= self.n: raise ValueError(...)
\* return self._gene_sets[self._gene_set_ids[i]]
get_by_index(db, i) ==
    IF i >= db_n(db) THEN Raised("ValueError")
    ELSE LET k == TupleItem(db.gene_set_ids, i)
         IN IF k.kind # "ok" THEN k ELSE Subscript(db.gene_sets, k.rec)

\* try: return self._gene_set_indices[id_]
\* except KeyError: raise ValueError(...)
index(db, id_) ==
    IF HasKey(db.gene_set_indices, id_)
    THEN ReturnedPos(DictGet(db.gene_set_indices, id_))
    ELSE Raised("ValueError")

\* if isinstance(key, int): return self.get_by_index(key)
\* else: return self.get_by_id(key)
getitem(db, key) ==
    IF key.isint THEN get_by_index(db, key.i) ELSE get_by_id(db, key.id)

\* the positions a caller asks for: all valid ones, and some on either side
LookupInts == (0 - MaxLen - 1)..MaxLen

Call(op, key, outcome) ==
    [op |-> op, key |-> key, kind |-> outcome.kind, rec |-> outcome.rec,
     pos |-> outcome.pos, seq |-> <<>>, flag |-> FALSE]

\* mutant: the record is taken out with self._gene_sets.pop(id_)
CallGetById_pop(id_) ==
    /\ pc = "built"
    /\ res' = Call("get_by_id", IdKey(id_), get_by_id(self, id_))
    /\ _gene_sets' = SelectSeq(_gene_sets, LAMBDA kv : kv[1] # id_)
    /\ UNCHANGED <<pc, lst, given, _gene_set_ids, _gene_set_indices, file, other, xml>>

CallGetById(id_) ==
    /\ pc = "built"
    /\ res' = Call("get_by_id", IdKey(id_), get_by_id(self, id_))
    /\ UNCHANGED <<pc, lst, given, dbvars, file, other, xml>>

CallGetByIndex(i) ==
    /\ pc = "built"
    /\ res' = Call("get_by_index", IntKey(i), get_by_index(self, i))
    /\ UNCHANGED <<pc, lst, given, dbvars, file, other, xml>>

CallIndex(id_) ==
    /\ pc = "built"
    /\ res' = Call("index", IdKey(id_), index(self, id_))
    /\ UNCHANGED <<pc, lst, given, dbvars, file, other, xml>>

CallGetItem(key) ==
    /\ pc = "built"
    /\ res' = Call("getitem", key, getitem(self, key))
    /\ UNCHANGED <<pc, lst, given, dbvars, file, other, xml>>

(***************************************************************************)
(* __hash__, __repr__, __eq__ and the read-only properties.                *)
(***************************************************************************)
\* hash(gs) of a GeneSet: derived from the record's fields
GeneSetHash(gs) == <<gs.id, gs.name, gs.genes, gs.source, gs.collection, gs.description>>

\* hash(tuple(self.gene_sets))
db_hash(db) == [k \in 1..db_n(db) |-> GeneSetHash(db_gene_sets(db)[k])]

\* '<%s object (n=%d; hash=%d)>' % (self.__class__.__name__, self.n, hash(self))
db_repr(db) == <<"GeneSetDB", db_n(db), db_hash(db)>>

\* self is other: True; type(self) != type(other): False;
\* otherwise repr(self) == repr(other)
db_eq(db, b, same) ==
    IF same THEN TRUE
    ELSE IF b = None THEN FALSE
    ELSE db_repr(db) = db_repr(b)

ReadGeneSets ==
    /\ pc = "built"
    /\ res' = [NoRes EXCEPT !.op = "gene_sets", !.kind = "ok", !.seq = gene_sets]
    /\ UNCHANGED <<pc, lst, given, dbvars, file, other, xml>>

ReadN ==
    /\ pc = "built"
    /\ res' = [NoRes EXCEPT !.op = "n", !.kind = "ok", !.pos = n]
    /\ UNCHANGED <<pc, lst, given, dbvars, file, other, xml>>

CallHash ==
    /\ pc = "built"
    /\ res' = [NoRes EXCEPT !.op = "hash", !.kind = "ok", !.seq = db_hash(self)]
    /\ UNCHANGED <<pc, lst, given, dbvars, file, other, xml>>

\* db == other, with other the collection read back (or None before that)
CallEq ==
    /\ pc = "built"
    /\ res' = [NoRes EXCEPT !.op = "eq", !.kind = "ok", !.flag = db_eq(self, other, FALSE)]
    /\ UNCHANGED <<pc, lst, given, dbvars, file, other, xml>>

\* db == db
CallEqSelf ==
    /\ pc = "built"
    /\ res' = [NoRes EXCEPT !.op = "eq_self", !.kind = "ok", !.flag = db_eq(self, self, TRUE)]
    /\ UNCHANGED <<pc, lst, given, dbvars, file, other, xml>>

(***************************************************************************)
(* The caller changes the list it passed to GeneSetDB(...).                *)
(***************************************************************************)
\* lst.pop(), once
CallerPop ==
    /\ pc = "built"
    /\ Len(lst) > 0
    /\ lst = given
    /\ lst' = SubSeq(lst, 1, Len(lst) - 1)
    /\ UNCHANGED <<pc, given, dbvars, res, file, other, xml>>

(***************************************************************************)
(* Tab-separated files.                                                    *)
(***************************************************************************)
\* GeneSet.to_list(): the record's fields as texts, the genes joined by commas
to_list(gs) ==
    <<gs.id, gs.name, Join(gs.genes, COMMA), gs.source, gs.collection, gs.description>>

\* GeneSet.from_list(l)
from_list(l) == GeneSet(l[1], l[2], Split(l[3], COMMA), l[4], l[5], l[6])

\* os.linesep
linesep == <<LF>>

\* csv.writer(ofh, dialect='excel-tab', quoting=csv.QUOTE_NONE,
\*            lineterminator=os.linesep).writerow(row):
\* with QUOTE_NONE and no escapechar a field holding the delimiter, the
\* quotechar or a character of the line terminator raises csv.Error and
\* nothing is written; otherwise the fields joined by tabs and the terminator.
NeedsEscape(fld) == Range(fld) \cap ({TAB, QUOTE} \cup Range(linesep)) # {}

writerow(row) ==
    IF \E k \in 1..Len(row) : NeedsEscape(row[k])
    THEN [kind |-> "csv.Error", text |-> <<>>]
    ELSE [kind |-> "ok", text |-> Join(row, TAB) \o linesep]

\* for gs in self._gene_sets.itervalues(): writer.writerow(gs.to_list())
\* The rows written before a row that raises stay in the file.
RECURSIVE write_rows(_)
write_rows(gsl) ==
    IF Len(gsl) = 0 THEN [kind |-> "ok", text |-> <<>>]
    ELSE LET w == writerow(to_list(gsl[1]))
         IN IF w.kind # "ok" THEN w
            ELSE LET rest == write_rows(Tail(gsl))
                 IN [kind |-> rest.kind, text |-> w.text \o rest.text]

write_tsv(db) == write_rows(db_gene_sets(db))

\* csv.reader(fh, dialect='excel-tab'): one row per line of the file, its
\* fields split at the tabs; an empty line gives the row [].  (A quoted
\* field starts with the quotechar, which writerow never lets through.)
reader(text) ==
    LET pieces == Split(text, LF)
        lines == IF pieces[Len(pieces)] = <<>>
                 THEN SubSeq(pieces, 1, Len(pieces) - 1) ELSE pieces
    IN [k \in 1..Len(lines) |-> IF lines[k] = <<>> THEN <<>> ELSE Split(lines[k], TAB)]

\* mutant: the first line is skipped as a header
read_tsv_header(text) ==
    LET rows == reader(text)
    IN GeneSetDB([k \in 1..(Len(rows) - 1) |-> from_list(rows[k + 1])])

\* for l in reader: gene_sets.append(GeneSet.from_list(l))
\* return cls(gene_sets)
read_tsv(text) ==
    LET rows == reader(text)
    IN GeneSetDB([k \in 1..Len(rows) |-> from_list(rows[k])])

CallWriteTsv ==
    /\ pc = "built"
    /\ LET w == write_tsv(self)
       IN /\ file' = w.text
          /\ res' = [NoRes EXCEPT !.op = "write_tsv", !.kind = w.kind]
    /\ UNCHANGED <<pc, lst, given, dbvars, other, xml>>

\* other = GeneSetDB.read_tsv(path), once the file exists
CallReadTsv ==
    /\ pc = "built"
    /\ file # None
    /\ other' = read_tsv(file)
    /\ res' = [NoRes EXCEPT !.op = "read_tsv", !.kind = "ok"]
    /\ UNCHANGED <<pc, lst, given, dbvars, file, xml>>

Next ==
    \/ \E gsl \in InputLists : Construct(gsl)
    \/ \E id_ \in LookupIds : CallGetById(id_)
    \/ \E i \in LookupInts : CallGetByIndex(i)
    \/ \E id_ \in LookupIds : CallIndex(id_)
    \/ \E key \in {IntKey(i) : i \in LookupInts} \cup {IdKey(id_) : id_ \in LookupIds} :
           CallGetItem(key)
    \/ ReadGeneSets
    \/ ReadN
    \/ CallHash
    \/ CallEq
    \/ CallEqSelf
    \/ CallWriteTsv
    \/ CallReadTsv
    \/ CallerPop

Spec == Init /\ [][Next]_vars

(***************************************************************************)
(* GeneSetDB.read_msigdb_xml.  xmltodict.parse(..., item_depth=2,          *)
(* item_callback=handle_item) calls handle_item once per entry of the      *)
(* document, in document order; data = pth[1][1] holds the entry's         *)
(* attributes.                                                             *)
(***************************************************************************)
Item(organism, systematic_name, standard_name, members_ezid) ==
    [ORGANISM |-> organism, SYSTEMATIC_NAME |-> systematic_name,
     STANDARD_NAME |-> standard_name, CATEGORY_CODE |-> <<"c">>,
     DESCRIPTION_BRIEF |-> <<"d">>, MEMBERS_EZID |-> members_ezid]

\* The entries documents are made of: two share a systematic name, one has
\* only unknown identifiers, one has an empty MEMBERS_EZID.
Item1 == Item(<<"h">>, <<"M", "1">>, <<"a">>, <<"1", COMMA, "9">>)
Item2 == Item(<<"m">>, <<"M", "2">>, <<"b">>, <<"2", COMMA, "9", COMMA, "1">>)
Item3 == Item(<<"h">>, <<"M", "3">>, <<"c">>, <<"9">>)
Item4 == Item(<<"h">>, <<"M", "1">>, <<"e">>, <<"2">>)
Item5 == Item(<<"m">>, <<"M", "4">>, <<"f">>, <<>>)

ItemPool == {Item1, Item2, Item3, Item4, Item5}

Documents == SeqsUpTo(ItemPool, MaxItems)

\* the species argument: None, or a species name
SpeciesArgs == {None, Some(<<"h">>), Some(<<"m">>)}

\* the entrez2gene argument: a dict from Entrez IDs to gene symbols
Entrez2GeneArgs == {<< <<<<"1">>, <<"A">>>>, <<<<"2">>, <<"B">>>> >>, <<>>}

\* src = 'MSigDB'
src == <<"M", "S", "i", "g", "D", "B">>

\* genes = []
\* for e in entrez:
\*     total_genes[0] += 1
\*     try: genes.append(entrez2gene[e])
\*     except KeyError: unknown_entrezid[0] += 1
RECURSIVE map_entrez(_, _, _)
map_entrez(entrez, entrez2gene, acc) ==
    IF Len(entrez) = 0 THEN acc
    ELSE LET e == entrez[1]
             g == Subscript(entrez2gene, e)
             step == IF g.kind = "KeyError"
                     THEN [acc EXCEPT !.total_genes = @ + 1, !.unknown_entrezid = @ + 1]
                     ELSE [acc EXCEPT !.total_genes = @ + 1, !.genes = Append(@, g.rec)]
         IN map_entrez(Tail(entrez), entrez2gene, step)

\* mutant: the identifiers are mapped and counted before the species test
handle_item_map_first(x, data) ==
    LET m == map_entrez(Split(data.MEMBERS_EZID, COMMA), x.entrez2gene,
                        [genes |-> <<>>, total_genes |-> x.total_genes,
                         unknown_entrezid |-> x.unknown_entrezid])
        counted == [x EXCEPT !.total_gs = @ + 1, !.pos = @ + 1, !.ret = TRUE,
                             !.total_genes = m.total_genes,
                             !.unknown_entrezid = m.unknown_entrezid]
    IN IF x.species # None /\ data.ORGANISM # x.species.val
       THEN [counted EXCEPT !.species_excl = @ + 1]
       ELSE IF m.genes = <<>> THEN counted
       ELSE [counted EXCEPT
                !.gene_sets = Append(@, GeneSet(data.SYSTEMATIC_NAME, data.STANDARD_NAME,
                                                m.genes, src, data.CATEGORY_CODE,
                                                data.DESCRIPTION_BRIEF)),
                !.i = @ + 1]

\* mutant: the species test counts the entry and does not return
handle_item_no_return(x, data) ==
    LET counted == [x EXCEPT !.total_gs = @ + 1, !.pos = @ + 1, !.ret = TRUE]
        filtered == IF x.species # None /\ data.ORGANISM # x.species.val
                    THEN [counted EXCEPT !.species_excl = @ + 1] ELSE counted
        m == map_entrez(Split(data.MEMBERS_EZID, COMMA), x.entrez2gene,
                        [genes |-> <<>>, total_genes |-> x.total_genes,
                         unknown_entrezid |-> x.unknown_entrezid])
        mapped == [filtered EXCEPT !.total_genes = m.total_genes,
                                   !.unknown_entrezid = m.unknown_entrezid]
    IN IF m.genes = <<>> THEN mapped
       ELSE [mapped EXCEPT
                !.gene_sets = Append(@, GeneSet(data.SYSTEMATIC_NAME, data.STANDARD_NAME,
                                                m.genes, src, data.CATEGORY_CODE,
                                                data.DESCRIPTION_BRIEF)),
                !.i = @ + 1]

\* handle_item(pth, item) on the locals x of read_msigdb_xml, data = pth[1][1]
handle_item(x, data) ==
    LET counted == [x EXCEPT !.total_gs = @ + 1, !.pos = @ + 1, !.ret = TRUE]
    IN IF x.species # None /\ data.ORGANISM # x.species.val
       THEN [counted EXCEPT !.species_excl = @ + 1]
       ELSE LET m == map_entrez(Split(data.MEMBERS_EZID, COMMA), x.entrez2gene,
                                [genes |-> <<>>, total_genes |-> x.total_genes,
                                 unknown_entrezid |-> x.unknown_entrezid])
                mapped == [counted EXCEPT !.total_genes = m.total_genes,
                                          !.unknown_entrezid = m.unknown_entrezid]
            IN IF m.genes = <<>> THEN mapped
               ELSE [mapped EXCEPT
                        !.gene_sets = Append(@, GeneSet(data.SYSTEMATIC_NAME,
                                                        data.STANDARD_NAME, m.genes, src,
                                                        data.CATEGORY_CODE,
                                                        data.DESCRIPTION_BRIEF)),
                        !.i = @ + 1]

\* the locals of read_msigdb_xml(path, entrez2gene, species) before parsing;
\* doc is the content of the file at path, pos the entries handled so far
xml_locals(doc, entrez2gene, species) ==
    [doc |-> doc, entrez2gene |-> entrez2gene, species |-> species, pos |-> 0,
     i |-> 0, gene_sets |-> <<>>, total_gs |-> 0, total_genes |-> 0,
     species_excl |-> 0, unknown_entrezid |-> 0, ret |-> TRUE]

InitXml ==
    /\ pc = "parsing"
    /\ xml \in {xml_locals(doc, e2g, species) :
                    doc \in Documents, e2g \in Entrez2GeneArgs, species \in SpeciesArgs}
    /\ lst = <<>>
    /\ given = <<>>
    /\ _gene_sets = <<>>
    /\ _gene_set_ids = <<>>
    /\ _gene_set_indices = <<>>
    /\ res = NoRes
    /\ file = None
    /\ other = None

\* the parser reaches the next entry and calls handle_item; a callback
\* returning False would stop the parse
HandleItem ==
    /\ pc = "parsing"
    /\ xml.ret
    /\ xml.pos < Len(xml.doc)
    /\ xml' = handle_item(xml, xml.doc[xml.pos + 1])
    /\ UNCHANGED <<pc, lst, given, dbvars, res, file, other>>

\* the document is exhausted: return cls(gene_sets)
ReturnXml ==
    /\ pc = "parsing"
    /\ xml.pos = Len(xml.doc)
    /\ LET db == GeneSetDB(xml.gene_sets)
       IN /\ _gene_sets' = db.gene_sets
          /\ _gene_set_ids' = db.gene_set_ids
          /\ _gene_set_indices' = db.gene_set_indices
    /\ lst' = xml.gene_sets
    /\ given' = xml.gene_sets
    /\ pc' = "parsed"
    /\ UNCHANGED <<res, file, other, xml>>

NextXml ==
    \/ HandleItem
    \/ ReturnXml

SpecXml == InitXml /\ [][NextXml]_vars

(***************************************************************************)
(* Properties of the collection (under Spec).                              *)
(***************************************************************************)
HasDupIds(gsl) == \E j, k \in 1..Len(gsl) : j # k /\ gsl[j].id = gsl[k].id

\* C1: at every position 0 <= i < n, get_by_index(i), db[i], get_by_id(id_i)
\* and db[id_i] return the same record, whose id is id_i, and
\* index(id_i) == i; index() and get_by_index() are inverse to each other.
C1_LookupsAgree ==
    pc = "built" =>
        /\ \A i \in 0..(n - 1) :
               LET r == get_by_index(self, i)
               IN /\ r.kind = "ok"
                  /\ getitem(self, IntKey(i)) = r
                  /\ get_by_id(self, r.rec.id) = r
                  /\ getitem(self, IdKey(r.rec.id)) = r
                  /\ index(self, r.rec.id) = ReturnedPos(i)
        /\ \A id_ \in LookupIds :
               LET p == index(self, id_)
               IN p.kind = "ok" =>
                      /\ p.pos \in 0..(n - 1)
                      /\ get_by_index(self, p.pos).kind = "ok"
                      /\ get_by_index(self, p.pos).rec.id = id_
        \* and the calls made agree with it
        /\ (res.op = "getitem" /\ res.kind = "ok" /\ ~res.key.isint) =>
               /\ res.rec.id = res.key.id
               /\ get_by_index(self, index(self, res.key.id).pos) = Returned(res.rec)

C1_Witness ==
    /\ pc = "built"
    /\ n >= 2
    /\ res.op = "getitem" /\ res.kind = "ok" /\ ~res.key.isint
    /\ index(self, res.key.id).pos = 1

\* C2: constructing a GeneSetDB from a list in which an identifier occurs
\* more than once fails instead of producing a collection.
C2_DuplicateIdsRejected == pc = "built" => ~HasDupIds(given)

\* C3: for a list with pairwise distinct identifiers, n is the length of
\* the list, get_by_index(i) is the i-th record of it, and gene_sets lists
\* the records in the list's order.
C3_InputOrder ==
    (pc = "built" /\ ~HasDupIds(given)) =>
        /\ n = Len(given)
        /\ gene_sets = given
        /\ \A i \in 0..(n - 1) : get_by_index(self, i) = Returned(given[i + 1])
        /\ (res.op = "get_by_index" /\ 0 <= res.key.i /\ res.key.i < n) =>
               (res.kind = "ok" /\ res.rec = given[res.key.i + 1])
        /\ res.op = "n" => res.pos = Len(given)
        /\ res.op = "gene_sets" => res.seq = given

C3_Witness ==
    /\ pc = "built" /\ ~HasDupIds(given) /\ Len(given) = MaxLen
    /\ res.op = "get_by_index" /\ res.key.i = MaxLen - 1 /\ res.kind = "ok"

\* C4: in every collection, the empty one included, get_by_id(x) and
\* index(x) raise ValueError for an identifier x of no record, and
\* get_by_index(i) raises ValueError for every i >= n; likewise through
\* db[x] and db[i].
C4_NotFoundIsValueError ==
    pc = "built" =>
        /\ (res.op \in {"get_by_id", "index"} /\ ~HasKey(_gene_sets, res.key.id)) =>
               res.kind = "ValueError"
        /\ (res.op = "get_by_index" /\ res.key.i >= n) => res.kind = "ValueError"
        /\ (res.op = "getitem" /\ ~res.key.isint /\ ~HasKey(_gene_sets, res.key.id)) =>
               res.kind = "ValueError"
        /\ (res.op = "getitem" /\ res.key.isint /\ res.key.i >= n) =>
               res.kind = "ValueError"

C4_Witness ==
    /\ pc = "built" /\ n = 0
    /\ res.op = "getitem" /\ res.key.isint /\ res.key.i = 0 /\ res.kind = "ValueError"

C4_WitnessId ==
    /\ pc = "built" /\ n = 2
    /\ res.op = "index" /\ ~HasKey(_gene_sets, res.key.id) /\ res.kind = "ValueError"

\* C5: every lookup failure is a ValueError: get_by_index(i) raises
\* ValueError for every i outside 0..n-1, negative i included, no lookup
\* raises another kind of error, and none returns a record for a position
\* outside 0..n-1.
C5_OnlyValueError ==
    pc = "built" =>
        /\ (res.op = "get_by_index" /\ (res.key.i < 0 \/ res.key.i >= n)) =>
               res.kind = "ValueError"
        /\ res.op \in {"get_by_index", "get_by_id", "index"} =>
               res.kind \in {"ok", "ValueError"}

\* C6: for a collection whose records can be written (no field holds a tab,
\* a line break or a quote, every record has genes and no gene a comma),
\* write_tsv succeeds and writes one line per record, and read_tsv of that
\* file returns a collection with the same n and the same records in the
\* same order, equal to the first under __eq__.
TsvText(t) == Range(t) \cap {TAB, LF, "\r", QUOTE} = {}

TsvGeneSet(gs) ==
    /\ TsvText(gs.id) /\ TsvText(gs.name) /\ TsvText(gs.source)
    /\ TsvText(gs.collection) /\ TsvText(gs.description)
    /\ Len(gs.genes) > 0
    /\ \A k \in 1..Len(gs.genes) : TsvText(gs.genes[k]) /\ COMMA \notin Range(gs.genes[k])

TsvValid(db) == \A k \in 1..db_n(db) : TsvGeneSet(db_gene_sets(db)[k])

LineCount(text) == Cardinality({k \in 1..Len(text) : text[k] = LF})

C9_Immutable ==
    [][pc = "built" =>
          /\ gene_sets' = gene_sets
          /\ n' = n
          /\ _gene_sets' = _gene_sets
          /\ _gene_set_ids' = _gene_set_ids
          /\ _gene_set_indices' = _gene_set_indices]_vars

C9_Witness ==
    /\ pc = "built" /\ n = 2
    /\ lst # given
    /\ file # None /\ other # None
    /\ res.op = "get_by_id" /\ res.kind = "ValueError"
    /\ gene_sets = given

\* C10: from a list in which records share an identifier the collection is
\* built with one record per distinct identifier: n is the number of
\* distinct identifiers, the identifiers stand in the order of their first
\* occurrences, each holds the last record of the list with that identifier,
\* and index(get_by_index(i).id) == i for 0 <= i < n, the positions being
\* exactly 0..n-1.
RECURSIVE FirstOccurrences(_)
FirstOccurrences(ids) ==
    IF Len(ids) = 0 THEN <<>>
    ELSE LET front == SubSeq(ids, 1, Len(ids) - 1)
             x == ids[Len(ids)]
         IN IF x \in Range(front) THEN FirstOccurrences(front)
            ELSE Append(FirstOccurrences(front), x)

LastWithId(gsl, id_) ==
    gsl[CHOOSE k \in 1..Len(gsl) :
            /\ gsl[k].id = id_
            /\ \A j \in (k + 1)..Len(gsl) : gsl[j].id # id_]

C10_DuplicatesCollapse ==
    (pc = "built" /\ HasDupIds(given)) =>
        LET ids == FirstOccurrences([k \in 1..Len(given) |-> given[k].id])
        IN /\ n = Cardinality({given[k].id : k \in 1..Len(given)})
           /\ n = Len(ids)
           /\ \A i \in 0..(n - 1) :
                  /\ get_by_index(self, i) = Returned(LastWithId(given, ids[i + 1]))
                  /\ index(self, ids[i + 1]) = ReturnedPos(i)
                  /\ index(self, get_by_index(self, i).rec.id) = ReturnedPos(i)
           /\ {_gene_set_indices[k][2] : k \in 1..Len(_gene_set_indices)} = 0..(n - 1)
           /\ Len(_gene_set_indices) = n

C10_Witness ==
    /\ pc = "built"
    /\ given = <<GS1, GS2, GS3>>
    /\ n = 2
    /\ res.op = "get_by_index" /\ res.key.i = 0 /\ res.rec = GS3

(***************************************************************************)
(* Properties of read_msigdb_xml (under SpecXml).                          *)
(***************************************************************************)
\* entry k of the document passes the species filter
Passes(k) == xml.species = None \/ xml.doc[k].ORGANISM = xml.species.val

\* the identifiers of an entry that are keys of entrez2gene, in their order
MappedIds(data) ==
    SelectSeq(Split(data.MEMBERS_EZID, COMMA), LAMBDA e : HasKey(xml.entrez2gene, e))

\* their display names
MappedNames(data) ==
    [k \in 1..Len(MappedIds(data)) |-> DictGet(xml.entrez2gene, MappedIds(data)[k])]

\* the gene set an entry stands for
EntryRecord(data) ==
    GeneSet(data.SYSTEMATIC_NAME, data.STANDARD_NAME, MappedNames(data), src,
            data.CATEGORY_CODE, data.DESCRIPTION_BRIEF)

\* record r carries the names of this entry
FromEntry(r, data) ==
    r.id = data.SYSTEMATIC_NAME /\ r.name = data.STANDARD_NAME

\* C7: with a species filter, every record collected, and every record of
\* the collection returned, is that of an entry whose ORGANISM is the
\* species, and species_excl is the number of entries handled whose
\* ORGANISM differs, i.e. the entries handled minus those passing the
\* filter; without a filter species_excl stays 0.
C7_SpeciesFilter ==
    pc \in {"parsing", "parsed"} =>
        LET handled == 1..xml.pos
            differ == {k \in handled : ~Passes(k)}
        IN /\ xml.total_gs = xml.pos
           /\ xml.species_excl = Cardinality(differ)
           /\ xml.species_excl = xml.total_gs - Cardinality({k \in handled : Passes(k)})
           /\ xml.species = None => xml.species_excl = 0
           /\ xml.species # None =>
                  \A j \in 1..Len(xml.gene_sets) :
                      \E k \in handled :
                          /\ xml.doc[k].ORGANISM = xml.species.val
                          /\ xml.gene_sets[j] = EntryRecord(xml.doc[k])
           /\ (pc = "parsed" /\ xml.species # None) =>
                  \A j \in 1..n :
                      \E k \in handled :
                          /\ xml.doc[k].ORGANISM = xml.species.val
                          /\ gene_sets[j] = EntryRecord(xml.doc[k])

C7_Witness ==
    /\ pc = "parsed"
    /\ xml.species = Some(<<"m">>)
    /\ Len(xml.doc) = MaxItems
    /\ xml.species_excl = 2
    /\ n = 1
    /\ \E k \in 1..Len(xml.doc) : ~Passes(k) /\ MappedIds(xml.doc[k]) # <<>>

\* C8: in the collection returned, an entry that passes the species filter
\* is absent if and only if none of its MEMBERS_EZID identifiers is a key of
\* entrez2gene; an entry with a mapped identifier is present, its genes
\* being the display names of its mapped identifiers in their order.
C8_ExcludedIffUnmapped ==
    pc = "parsed" =>
        \A k \in 1..Len(xml.doc) :
            Passes(k) =>
                LET data == xml.doc[k]
                IN /\ MappedIds(data) = <<>> <=>
                          ~\E j \in 1..n : FromEntry(gene_sets[j], data)
                   /\ MappedIds(data) # <<>> =>
                          \E j \in 1..n : gene_sets[j] = EntryRecord(data)

\* What does hold: the list handed to GeneSetDB(...) has, in document
\* order, exactly the records of the passing entries with a mapped
\* identifier.
RetainedEntries ==
    SelectSeq([k \in 1..xml.pos |-> [k |-> k, data |-> xml.doc[k]]],
              LAMBDA e : Passes(e.k) /\ MappedIds(e.data) # <<>>)

RetainedInList ==
    pc \in {"parsing", "parsed"} =>
        xml.gene_sets = [j \in 1..Len(RetainedEntries) |->
                            EntryRecord(RetainedEntries[j].data)]

\* the entries handled so far that pass the species filter
PassingHandled == {k \in 1..xml.pos : Passes(k)}

\* the identifiers of entry k, and those of them entrez2gene does not know
EntryIds(k) == Split(xml.doc[k].MEMBERS_EZID, COMMA)
UnknownIds(k) == SelectSeq(EntryIds(k), LAMBDA e : ~HasKey(xml.entrez2gene, e))

RECURSIVE SumSeq(_)
SumSeq(nums) == IF Len(nums) = 0 THEN 0 ELSE nums[1] + SumSeq(Tail(nums))

IdCount(k) == Len(EntryIds(k))
UnknownCount(k) == Len(UnknownIds(k))

\* C11: after every entry handled, total_gs == species_excl + (entries
\* dropped for having no mapped gene) + len(gene_sets);
\* 0 <= unknown_entrezid <= total_genes, both counting only the identifiers
\* of entries that pass the species filter (the filter comes before the
\* mapping); the records are appended in document order; the callback
\* returns True each time, so the parse reaches the end of the document.
C11_Counters ==
    pc \in {"parsing", "parsed"} =>
        LET dropped == {k \in PassingHandled : MappedIds(xml.doc[k]) = <<>>}
        IN /\ xml.total_gs = xml.pos
           /\ xml.total_gs = xml.species_excl + Cardinality(dropped) + Len(xml.gene_sets)
           /\ xml.i = Len(xml.gene_sets)
           /\ 0 <= xml.unknown_entrezid
           /\ xml.unknown_entrezid <= xml.total_genes
           /\ xml.total_genes =
                  SumSeq([k \in 1..xml.pos |-> IF Passes(k) THEN IdCount(k) ELSE 0])
           /\ xml.unknown_entrezid =
                  SumSeq([k \in 1..xml.pos |-> IF Passes(k) THEN UnknownCount(k) ELSE 0])
           /\ xml.gene_sets = [j \in 1..Len(RetainedEntries) |->
                                  EntryRecord(RetainedEntries[j].data)]
           /\ xml.ret
           /\ pc = "parsed" => xml.pos = Len(xml.doc)

C11_Witness ==
    /\ pc = "parsing"
    /\ xml.pos = MaxItems
    /\ xml.species_excl = 1
    /\ Len(xml.gene_sets) = 1
    /\ \E k \in PassingHandled : MappedIds(xml.doc[k]) = <<>>
    /\ \E k \in 1..xml.pos : ~Passes(k) /\ IdCount(k) = 3
    /\ xml.unknown_entrezid = 2
    /\ xml.total_genes = 3
====
